---- MODULE Spec2Model ----
\* Batch orchestration core of slicer_regbet (src/src/slicer_regbet/core.py):
\* discovery, per-item two-stage pipeline driven by the output files on disk,
\* and the batch exit status. External tools (BRAINSFit launcher, headless
\* Slicer running the HD-BET script) are opaque: they may exit with any
\* status, write any of their outputs (possibly as zero-byte files), or hang.
EXTENDS Integers, Sequences, FiniteSets, TLC

\* ---------------------------------------------------------------- bounds
\* invocations of the batch on one output root
MaxRuns == 2
\* the external tools exit with a status in 0..MaxExitCode
MaxExitCode == 1

\* ------------------------------------------------------- file names
\* A file name is the sequence of its dot-separated components:
\* "case1.nii.gz" is <<"case1", "nii", "gz">>.
\* The names that may be present in the input directory, written in the
\* order Python's sorted() puts the paths in.
FileUniverse ==
  << <<"case1", "nii">>, <<"case1", "nii", "gz">>, <<"case2", "nii", "gz">>,
     <<"notes", "txt">> >>

InputFiles == {FileUniverse[i] : i \in 1..Len(FileUniverse)}
\* the input directories considered: any set of the .nii.gz images, beside a
\* file that is not an image
InputDirs ==
  {d \in SUBSET InputFiles : <<"notes", "txt">> \in d /\ <<"case1", "nii">> \notin d}
\* input directories that may hold case1.nii beside case1.nii.gz
SameNameDirs ==
  {d \in SUBSET InputFiles :
     <<"notes", "txt">> \in d /\ <<"case2", "nii", "gz">> \notin d}

VALID_EXTS ==
  { <<"nii">>, <<"nii", "gz">>, <<"nrrd">>, <<"mha">>, <<"mhd">>,
    <<"nifti">>, <<"hdr">>, <<"img">> }

\* str.endswith("." + ext) on a name given by its components
EndsWith(f, ext) ==
  /\ Len(f) >= Len(ext) + 1
  /\ SubSeq(f, Len(f) - Len(ext) + 1, Len(f)) = ext

basename_no_nii_gz(p) ==
  IF EndsWith(p, <<"nii", "gz">>)
    THEN SubSeq(p, 1, Len(p) - 2)
    ELSE IF Len(p) >= 2 THEN SubSeq(p, 1, Len(p) - 1) ELSE p

PathRank(f) == CHOOSE i \in 1..Len(FileUniverse) : FileUniverse[i] = f

RECURSIVE sorted(_)
sorted(S) ==
  IF S = {} THEN << >>
  ELSE LET m == CHOOSE x \in S : \A y \in S : PathRank(x) <= PathRank(y)
       IN  <<m>> \o sorted(S \ {m})

\* find_images with no pattern, not recursive: the directory entries whose
\* name ends with an allowed extension, sorted
find_images_set(dir) == {f \in dir : \E e \in VALID_EXTS : EndsWith(f, e)}
find_images(dir) == sorted(find_images_set(dir))

\* ------------------------------------------------------- output files
\* stable names of the inputs the directory may hold
Names == {basename_no_nii_gz(f) : f \in find_images_set(InputFiles)}
\* the four outputs of an item: registered volume, transform, BET volume,
\* segmentation (process_case, lines 143-146)
Arts == {"reg", "xfm", "bet", "seg"}
Stage1Outs == {"reg", "xfm"}
Stage2Outs == {"bet", "seg"}
\* a path is absent, a zero-byte file, or a file with content
FileStates == {"absent", "empty", "data"}
NoFiles == [a \in Arts |-> "absent"]

\* the output roots a first invocation may find: any state of the artifacts of
\* the inputs present, nothing for names that are not among the inputs
InitialRoots(dir) ==
  LET present == {basename_no_nii_gz(f) : f \in find_images_set(dir)}
  IN  {[n \in Names |-> IF n \in present THEN r[n] ELSE NoFiles] :
         r \in [present -> [Arts -> FileStates]]}

is_file(st) == st # "absent"
st_size(st) == IF st = "data" THEN 1 ELSE 0

nonzero_file(st) == is_file(st) /\ st_size(st) > 0

\* what a tool run does to one of its output files
Writes == {"keep", "empty", "data"}
Written(old, w) == IF w = "keep" THEN old ELSE w

VARIABLES
  run,        \* number of the batch invocation on this output root
  pc,         \* "start", "case", "reg", "bet", "done", "killed"
  rc,         \* exit status of run_batch, -1 while it runs
  slicerOk,   \* the Slicer launcher is a file
  atlasOk,    \* the atlas is a file
  overwrite,  \* --overwrite
  tools,      \* "good": the tools do their job; "any": no assumption;
              \* "locked": as "any", and removing the script may fail
  listing,    \* names present in the input directory
  imgs,       \* find_images result of this run
  idx,        \* 1-based index of the item in process_case
  done,       \* completed count of run_batch
  fs,         \* output root: fs[name][artifact] is a file state
  tool,       \* external process: "idle", "running", "hung"
  cur,        \* the item last entered: what process_case found and launched
  results,    \* (item, outcome) of every item processed in this run, in order
  prev        \* what the previous invocation left behind

vars == <<run, pc, rc, slicerOk, atlasOk, overwrite, tools, listing, imgs, idx,
          done, fs, tool, cur, results, prev>>

\* prev.ended: how the previous invocation ended ("none", "done", "killed");
\* prev.ok: the indices of the items for which process_case returned True
NoPrev == [ended |-> "none", ok |-> {}]

\* cur.entry1, cur.entry2: every artifact of the stage was a non-empty file
\* on entry; n1, n2: launches of each stage; rc1, rc2: exit status of the
\* stage's process (-1: none yet, -2: the wait timed out); script: the
\* temporary HD-BET script of the item ("none", "written", "removed",
\* "left"); unlink: how its removal went ("none", "ok", "failed"); waited:
\* seconds after which the stage-2 wait was abandoned; logged: seconds the
\* timeout message states (-1: no timeout)
NoCase == [outcome |-> "none", entry1 |-> FALSE, entry2 |-> FALSE,
           n1 |-> 0, n2 |-> 0, rc1 |-> -1, rc2 |-> -1,
           script |-> "none", unlink |-> "none", waited |-> -1, logged |-> -1]

InitCommon ==
  /\ run = 1
  /\ pc = "start"
  /\ rc = -1
  /\ slicerOk \in BOOLEAN
  /\ atlasOk \in BOOLEAN
  /\ listing \in InputDirs
  /\ imgs = << >>
  /\ idx = 0
  /\ done = 0
  /\ tool = "idle"
  /\ cur = NoCase
  /\ results = << >>
  /\ prev = NoPrev

\* one invocation on any output root, with tools that may do anything
Init ==
  /\ InitCommon
  /\ overwrite \in BOOLEAN
  /\ tools = "any"
  /\ fs \in InitialRoots(listing)

\* ------------------------------------------------------- process_case
Item == imgs[idx]
ItemName == basename_no_nii_gz(Item)

all_outputs_exist(files) ==
  /\ nonzero_file(files["reg"])
  /\ nonzero_file(files["xfm"])
  /\ nonzero_file(files["bet"])
  /\ nonzero_file(files["seg"])

\* lines 149-150: the [SKIP] test
skip_case_Inverted(files) == all_outputs_exist(files) /\ overwrite
skip_case(files) == all_outputs_exist(files) /\ ~overwrite

\* line 156: the test that decides whether stage 1 is launched
needs_registration_Always(files) == TRUE
needs_registration(files) == ~nonzero_file(files["reg"]) \/ overwrite

\* line 164: the test that decides whether stage 2 is launched
needs_hdbet_NoOverwrite(files) ==
  ~nonzero_file(files["bet"]) \/ ~nonzero_file(files["seg"])
needs_hdbet(files) ==
  ~nonzero_file(files["bet"]) \/ ~nonzero_file(files["seg"]) \/ overwrite

\* run_registration's result from the tool's exit status
registration_ok_Always(returncode) == TRUE
registration_ok(returncode) == returncode = 0

\* run_hdbet's result from the host's exit status and the files it left
hdbet_ok_StatusOnly(returncode, files) == returncode = 0
hdbet_ok(returncode, files) ==
  returncode = 0 /\ nonzero_file(files["bet"]) /\ nonzero_file(files["seg"])

\* the exit status run_batch returns after the loop
batch_status_AnyDone(d, total) == IF d > 0 THEN 0 ELSE 1
batch_status(d, total) == IF d = total THEN 0 ELSE 1

\* the loop of run_batch after process_case returned: more items or not
more_items_StopOnFailure(ok) == ok /\ idx < Len(imgs)
more_items(ok) == idx < Len(imgs)

\* process_case returned `ok` with outcome `out`: run_batch counts it and
\* goes on to the next item, or logs the summary and returns
Return(ok, out, c) ==
  LET d == done + (IF ok THEN 1 ELSE 0)
  IN /\ cur' = [c EXCEPT !.outcome = out]
     /\ results' = Append(results, [item |-> Item, outcome |-> out])
     /\ done' = d
     /\ tool' = "idle"
     /\ IF more_items(ok)
          THEN /\ idx' = idx + 1
               /\ pc' = "case"
               /\ rc' = rc
          ELSE /\ idx' = idx
               /\ pc' = "done"
               /\ rc' = batch_status(d, Len(imgs))

\* --bet-timeout, at its default
bet_timeout == 1800
\* run_hdbet, line 124: the timeout handed to the wait
wait_timeout(t) == t + 120
\* run_hdbet, line 131: the seconds the timeout message states
timeout_logged(t) == t

\* run_hdbet, lines 130-137: the script after the `finally` block, on the
\* path the call leaves by ("return", "timeout"), given whether unlink worked
script_after_ReturnOnly(path, unlinked) ==
  IF path = "return" /\ unlinked THEN "removed" ELSE "left"
script_after(path, unlinked) == IF unlinked THEN "removed" ELSE "left"
\* Path.unlink on the script may fail (the file is still open elsewhere)
\* where the environment is "locked"
UnlinkResults == IF tools = "locked" THEN BOOLEAN ELSE {TRUE}
Unlinked(c, path, unlinked) ==
  [c EXCEPT !.script = script_after(path, unlinked),
            !.unlink = IF unlinked THEN "ok" ELSE "failed"]

\* lines 164-177, reached with stage 1 satisfied; run_hdbet writes the
\* script (117-120) and launches the host
Stage2OrFinish(files, c) ==
  IF needs_hdbet(files)
    THEN /\ pc' = "bet"
         /\ tool' = "running"
         /\ cur' = [c EXCEPT !.n2 = @ + 1, !.script = "written"]
         /\ UNCHANGED <<rc, idx, done, results>>
    ELSE Return(TRUE, "succeeded", c)

\* what a tool may do to its outputs, and the statuses it may exit with
ToolWrites(outs) ==
  IF tools = "good" THEN {[a \in outs |-> "data"]} ELSE [outs -> Writes]
ToolStatus == IF tools = "good" THEN {0} ELSE 0..MaxExitCode

Apply(files, w) ==
  [a \in Arts |-> IF a \in DOMAIN w THEN Written(files[a], w[a]) ELSE files[a]]

\* ------------------------------------------------------- run_batch
Frame == UNCHANGED <<run, slicerOk, atlasOk, overwrite, tools, listing, prev>>

LauncherMissing ==
  /\ pc = "start" /\ ~slicerOk
  /\ pc' = "done" /\ rc' = 2
  /\ UNCHANGED <<imgs, idx, done, fs, tool, cur, results>> /\ Frame

AtlasMissing_Unchecked ==
  /\ pc = "start" /\ slicerOk /\ ~atlasOk
  /\ find_images(listing) # << >>
  /\ imgs' = find_images(listing)
  /\ idx' = 1 /\ done' = 0 /\ pc' = "case"
  /\ UNCHANGED <<rc, fs, tool, cur, results>> /\ Frame
AtlasMissing ==
  /\ pc = "start" /\ slicerOk /\ ~atlasOk
  /\ pc' = "done" /\ rc' = 2
  /\ UNCHANGED <<imgs, idx, done, fs, tool, cur, results>> /\ Frame

NoImages ==
  /\ pc = "start" /\ slicerOk /\ atlasOk
  /\ find_images(listing) = << >>
  /\ pc' = "done" /\ rc' = 1
  /\ UNCHANGED <<imgs, idx, done, fs, tool, cur, results>> /\ Frame

BeginLoop ==
  /\ pc = "start" /\ slicerOk /\ atlasOk
  /\ find_images(listing) # << >>
  /\ imgs' = find_images(listing)
  /\ idx' = 1 /\ done' = 0 /\ pc' = "case"
  /\ UNCHANGED <<rc, fs, tool, cur, results>> /\ Frame

\* process_case up to its first launch or its return
ProcessCase ==
  /\ pc = "case"
  /\ LET files == fs[ItemName]
         c == [NoCase EXCEPT
                 !.outcome = "running",
                 !.entry1 = \A a \in Stage1Outs : files[a] = "data",
                 !.entry2 = \A a \in Stage2Outs : files[a] = "data"]
     IN IF skip_case(files)
          THEN Return(TRUE, "skipped", c)
          ELSE IF needs_registration(files)
            THEN /\ pc' = "reg"
                 /\ tool' = "running"
                 /\ cur' = [c EXCEPT !.n1 = @ + 1]
                 /\ UNCHANGED <<rc, idx, done, results>>
            ELSE Stage2OrFinish(files, c)
  /\ UNCHANGED <<imgs, fs>> /\ Frame

\* the BRAINSFit process exits; run_registration returns (its wait has no
\* timeout, so this is the only way the wait ends)
RegistrationReturns ==
  /\ pc = "reg" /\ tool = "running"
  /\ \E returncode \in ToolStatus, w \in ToolWrites(Stage1Outs) :
       LET files == Apply(fs[ItemName], w)
       IN /\ fs' = [fs EXCEPT ![ItemName] = files]
          /\ IF registration_ok(returncode)
               THEN Stage2OrFinish(files, [cur EXCEPT !.rc1 = returncode])
               ELSE Return(FALSE, "failed1", [cur EXCEPT !.rc1 = returncode])
  /\ UNCHANGED imgs /\ Frame

\* the Slicer host exits within the wait; run_hdbet returns
HdbetReturns ==
  /\ pc = "bet" /\ tool = "running"
  /\ \E returncode \in ToolStatus, w \in ToolWrites(Stage2Outs),
        unlinked \in UnlinkResults :
       LET files == Apply(fs[ItemName], w)
           c == Unlinked([cur EXCEPT !.rc2 = returncode], "return", unlinked)
       IN /\ fs' = [fs EXCEPT ![ItemName] = files]
          /\ IF hdbet_ok(returncode, files)
               THEN Return(TRUE, "succeeded", c)
               ELSE Return(FALSE, "failed2", c)
  /\ UNCHANGED imgs /\ Frame

\* subprocess.TimeoutExpired in run_hdbet: the host is killed, whatever it
\* had written stays
HdbetTimeout_Retries ==
  /\ pc = "bet" /\ tool \in {"running", "hung"} /\ tools # "good"
  /\ cur' = [cur EXCEPT !.n2 = @ + 1]
  /\ tool' = "running"
  /\ UNCHANGED <<pc, rc, imgs, idx, done, fs, results>> /\ Frame
HdbetTimeout ==
  /\ pc = "bet" /\ tool \in {"running", "hung"} /\ tools # "good"
  /\ \E w \in [Stage2Outs -> Writes] :
       fs' = [fs EXCEPT ![ItemName] = Apply(fs[ItemName], w)]
  /\ \E unlinked \in UnlinkResults :
       Return(FALSE, "failed2",
              Unlinked([cur EXCEPT !.rc2 = -2,
                                   !.waited = wait_timeout(bet_timeout),
                                   !.logged = timeout_logged(bet_timeout)],
                       "timeout", unlinked))
  /\ UNCHANGED imgs /\ Frame

\* the external process stops making progress and never exits
ToolHangs ==
  /\ pc \in {"reg", "bet"} /\ tool = "running" /\ tools # "good"
  /\ tool' = "hung"
  /\ UNCHANGED <<pc, rc, imgs, idx, done, fs, cur, results>> /\ Frame

\* one invocation of run_batch
Step ==
  \/ LauncherMissing
  \/ AtlasMissing
  \/ NoImages
  \/ BeginLoop
  \/ ProcessCase
  \/ RegistrationReturns
  \/ HdbetReturns
  \/ HdbetTimeout
  \/ ToolHangs

Next == Step
Spec == Init /\ [][Next]_vars

\* ------------------------------------------------ kill and re-invocation
\* the batch process and its child are killed; a tool that was running
\* leaves whatever it had written so far
Kill ==
  /\ pc \in {"start", "case", "reg", "bet"}
  /\ pc' = "killed"
  /\ tool' = "idle"
  /\ IF pc \in {"reg", "bet"}
       THEN \E w \in [IF pc = "reg" THEN Stage1Outs ELSE Stage2Outs -> Writes] :
              fs' = [fs EXCEPT ![ItemName] = Apply(fs[ItemName], w)]
       ELSE fs' = fs
  /\ UNCHANGED <<rc, imgs, idx, done, cur, results>> /\ Frame

\* the same command line is run again on the same inputs and output root
Rerun ==
  /\ pc \in {"done", "killed"}
  /\ run < MaxRuns
  /\ run' = run + 1
  /\ prev' = [ended |-> pc,
              ok |-> {i \in 1..Len(results) :
                        results[i].outcome \in {"skipped", "succeeded"}}]
  /\ pc' = "start" /\ rc' = -1 /\ imgs' = << >> /\ idx' = 0 /\ done' = 0
  /\ tool' = "idle" /\ cur' = NoCase /\ results' = << >>
  /\ UNCHANGED <<slicerOk, atlasOk, overwrite, tools, listing, fs>>

\* invocations without --overwrite on an output root that starts empty
InitRerun ==
  /\ InitCommon
  /\ overwrite = FALSE
  /\ tools \in {"good", "any"}
  /\ fs = [n \in Names |-> NoFiles]

NextRerun == Step \/ Kill \/ Rerun
SpecRerun == InitRerun /\ [][NextRerun]_vars

\* ------------------------------------------- inputs sharing a stable name
\* one invocation on a directory that may hold case1.nii and case1.nii.gz
InitSameName ==
  /\ run = 1 /\ pc = "start" /\ rc = -1
  /\ slicerOk \in BOOLEAN /\ atlasOk \in BOOLEAN
  /\ listing \in SameNameDirs
  /\ imgs = << >> /\ idx = 0 /\ done = 0
  /\ tool = "idle" /\ cur = NoCase /\ results = << >> /\ prev = NoPrev
  /\ overwrite \in BOOLEAN
  /\ tools = "any"
  /\ fs \in InitialRoots(listing)

SpecSameName == InitSameName /\ [][Next]_vars

\* --------------------------------------- removal of the script may fail
\* one invocation on a directory with at most one image, with tools that
\* may do anything and a temporary directory where unlink may fail
InitLocked ==
  /\ InitCommon
  /\ Cardinality(find_images_set(listing)) <= 1
  /\ overwrite \in BOOLEAN
  /\ tools = "locked"
  /\ fs \in InitialRoots(listing)

SpecLocked == InitLocked /\ [][Next]_vars
\* ------------------------------------------------------- claims
Final(c) == c.outcome \notin {"none", "running"}
Counted(out) == out \in {"skipped", "succeeded"}
\* name of the item cur describes, once process_case has returned for it
CurName == basename_no_nii_gz(results[Len(results)].item)
Completed == {i \in 1..Len(results) : Counted(results[i].outcome)}
Failed == {i \in 1..Len(results) : ~Counted(results[i].outcome)}

\* C1: without --overwrite, an item whose four outputs are all non-empty
\* files on entry is reported as skipped and no external process is
\* launched for it.
C1_SkipWhenComplete ==
  (cur.outcome # "none" /\ ~overwrite /\ cur.entry1 /\ cur.entry2)
    => /\ cur.outcome = "skipped"
       /\ cur.n1 = 0 /\ cur.n2 = 0
       /\ results[Len(results)].outcome = "skipped"
C1_Witness ==
  cur.outcome = "skipped" /\ ~overwrite /\ cur.entry1 /\ cur.entry2

\* C2: stage 2 is launched only if stage 1 ran in this call and returned
\* success, or the registered volume and the transform were both complete on
\* entry.
C2_Stage2OnlyAfterStage1 ==
  cur.n2 >= 1 => ((cur.n1 >= 1 /\ cur.rc1 = 0) \/ cur.entry1)

\* C3: in a second invocation without --overwrite, every item for which the
\* first invocation's process_case returned True is reported as skipped and
\* no external process is launched for it.
C3_SecondRunSkips ==
  (run > 1 /\ prev.ended = "done" /\ ~overwrite /\ Final(cur)
     /\ Len(results) \in prev.ok)
    => (cur.outcome = "skipped" /\ cur.n1 = 0 /\ cur.n2 = 0)

\* C4 as claimed: with --overwrite, both stages are invoked for every item.
C4_BothStagesRun ==
  (overwrite /\ Final(cur)) => (cur.n1 >= 1 /\ cur.n2 >= 1)
\* C4 as amended: with --overwrite, whatever outputs exist, no item is
\* skipped, stage 1 is invoked once for every item processed, stage 2 is
\* invoked exactly when stage 1 returned success, and a batch that returns
\* has processed every discovered item.
C4_Stage1AlwaysStage2AfterSuccess ==
  overwrite =>
    /\ cur.outcome # "none" =>
         /\ cur.outcome # "skipped"
         /\ cur.n1 = 1
         /\ cur.n2 = (IF cur.rc1 = 0 THEN 1 ELSE 0)
    /\ (pc = "done" /\ imgs # << >>) => Len(results) = Len(imgs)
C4_Witness ==
  /\ overwrite /\ Final(cur) /\ cur.entry1 /\ cur.entry2
  /\ cur.n1 = 1 /\ cur.n2 = 1

\* C5: when stage 1 runs for an item and its tool does not exit with 0, the
\* item's outcome is the stage-1 failure, stage 2 is not launched for it,
\* the item is not counted as completed and the batch returns 1.
C5_Stage1FailureIsTerminal ==
  /\ (cur.n1 >= 1 /\ cur.rc1 > 0)
       => /\ cur.outcome = "failed1"
          /\ cur.n2 = 0
          /\ pc # "bet"
          /\ results[Len(results)].outcome = "failed1"
  /\ done = Cardinality(Completed)
  /\ (pc = "done" /\ \E i \in 1..Len(results) : results[i].outcome = "failed1")
       => rc = 1
C5_Witness ==
  /\ pc = "done" /\ Len(results) = 2
  /\ results[1].outcome = "failed1" /\ results[2].outcome = "succeeded"
  /\ done = 1 /\ rc = 1

\* C6: process_case is called once per discovered item, in sorted order;
\* a failed or timed-out item is followed by the next one, and the batch
\* goes on until the summary, with every item accounted for. (The one wait
\* the batch cannot leave by itself, stage 1 on a tool that never exits, is
\* the subject of C8.)
C6_EveryItemOnceInOrder ==
  /\ Len(results) <= Len(imgs)
  /\ \A i \in 1..Len(results) : results[i].item = imgs[i]
  /\ \A i, j \in 1..Len(imgs) : i < j => PathRank(imgs[i]) < PathRank(imgs[j])
  /\ pc \in {"case", "reg", "bet"} => (idx = Len(results) + 1 /\ idx <= Len(imgs))
  /\ (pc = "done" /\ imgs # << >>)
       => (Len(results) = Len(imgs) /\ rc \in {0, 1})
  /\ pc = "done" \/ ENABLED Step \/ (pc = "reg" /\ tool = "hung")
C6_Witness ==
  /\ pc = "done" /\ Len(results) = 2
  /\ results[1].outcome = "failed2" /\ results[2].outcome = "succeeded"

\* C7: the exit status is 0 exactly when items were found and none failed,
\* 1 when items were found and one failed, and neither 0 nor 1 when no item
\* was found or the launcher or the atlas is missing.
C7_ExitStatusSeparates ==
  pc = "done" =>
    /\ rc = 0 <=> (imgs # << >> /\ Failed = {})
    /\ (imgs # << >> /\ Failed # {}) => rc = 1
    /\ imgs = << >> => rc \notin {0, 1}

\* C8: every wait on an external process is bounded, so the batch has
\* returned or can still take a step, even with a tool that never exits.
C8_EveryWaitEnds == pc = "done" \/ ENABLED Step

\* C9: when stage 2 runs, the item succeeds exactly if the host exited with
\* 0 and left both the BET volume and the segmentation as non-empty files;
\* otherwise the item has the stage-2 failure and is not counted.
C9_Stage2NeedsOutputs ==
  (cur.n2 >= 1 /\ Final(cur)) =>
    /\ cur.outcome = "succeeded"
         <=> /\ cur.rc2 = 0
             /\ fs[CurName]["bet"] = "data"
             /\ fs[CurName]["seg"] = "data"
    /\ cur.outcome # "succeeded"
         => (cur.outcome = "failed2" /\ Len(results) \notin Completed)
    /\ done = Cardinality(Completed)
C9_Witness ==
  /\ cur.n2 >= 1 /\ cur.rc2 = 0 /\ cur.outcome = "failed2"
  /\ fs[CurName]["bet"] = "data" /\ fs[CurName]["seg"] = "empty"

\* C10: a batch re-invoked without --overwrite after a killed invocation,
\* with tools that do their job, ends with all four outputs of every item
\* complete.
C10_ResumeCompletes ==
  (run > 1 /\ prev.ended = "killed" /\ tools = "good" /\ pc = "done")
    => \A i \in 1..Len(imgs) : \A a \in Arts :
         fs[basename_no_nii_gz(imgs[i])][a] = "data"

\* C11: whenever stage 2 is launched for an item, its registered volume and
\* its transform are both non-empty files, also right after a stage 1 that
\* exited with 0.
C11_Stage1CompleteAtStage2Launch ==
  pc = "bet" => \A a \in Stage1Outs : fs[ItemName][a] = "data"

\* C12: without --overwrite, no stage is launched while its artifact set is
\* complete: stage 1 is not running on a complete registered volume and
\* transform, stage 2 is not running on a complete BET volume and
\* segmentation, and a stage found complete on entry is not launched.
C12_NoLaunchOnCompleteStage ==
  ~overwrite =>
    /\ pc = "reg" => ~(\A a \in Stage1Outs : fs[ItemName][a] = "data")
    /\ pc = "bet" => ~(\A a \in Stage2Outs : fs[ItemName][a] = "data")
    /\ cur.entry1 => cur.n1 = 0
    /\ cur.entry2 => cur.n2 = 0
C12_Witness ==
  /\ ~overwrite /\ pc = "bet"
  /\ cur.entry1 /\ ~cur.entry2 /\ cur.n1 = 0 /\ cur.n2 = 1

\* C13: in one invocation each stage is launched at most once per item: an
\* item is entered once, a failed stage 1 and a failed or timed-out stage 2
\* end the item without another launch.
C13_EachStageAtMostOnce ==
  /\ cur.n1 <= 1 /\ cur.n2 <= 1
  /\ \A i, j \in 1..Len(results) : results[i].item = results[j].item => i = j
  /\ pc \in {"case", "reg", "bet"} => idx = Len(results) + 1
  /\ cur.rc1 > 0 => (Final(cur) /\ cur.n1 = 1 /\ cur.n2 = 0)
  /\ cur.rc2 \in {-2} \cup 1..(MaxExitCode + 1)
       => (cur.outcome = "failed2" /\ cur.n2 = 1)
C13_Witness ==
  /\ cur.rc2 = -2 /\ cur.outcome = "failed2" /\ cur.n1 = 1 /\ cur.n2 = 1
  /\ pc = "case" /\ Len(results) = 1

\* C14: the completed count is a running tally: after the first k items it
\* is the number of them that were skipped or succeeded, between 0 and k; it
\* never decreases; the summary reports it out of the number of discovered
\* items, and the exit status is 0 exactly when the two are equal.
C14_DoneIsRunningTally ==
  /\ [](/\ done = Cardinality(Completed)
        /\ 0 <= done /\ done <= Len(results)
        /\ (pc = "done" /\ imgs # << >>)
             => /\ Len(results) = Len(imgs)
                /\ Len(imgs) = Cardinality(find_images_set(listing))
                /\ rc = 0 <=> done = Len(imgs))
  /\ [][done' >= done]_vars
C14_Witness ==
  /\ pc = "done" /\ Len(imgs) = 2 /\ done = 1 /\ rc = 1
  /\ Counted(results[1].outcome) /\ ~Counted(results[2].outcome)

\* C15: when the launcher or the atlas is missing, or discovery finds no
\* item, the batch returns before any item is processed: process_case is
\* never entered and no stage is launched.
C15_EarlyReturnProcessesNothing ==
  (~slicerOk \/ ~atlasOk \/ find_images_set(listing) = {})
    => /\ pc \in {"start", "done"}
       /\ imgs = << >> /\ results = << >> /\ cur = NoCase
       /\ tool = "idle"
       /\ pc = "done" => rc \in {1, 2}
C15_Witness ==
  /\ pc = "done" /\ slicerOk /\ ~atlasOk /\ rc = 2
  /\ find_images_set(listing) # {}
  /\ \E n \in Names : ~all_outputs_exist(fs[n])

\* C16: an item that is not skipped as a whole gets stage 1 whenever its
\* stage-1 artifact set is incomplete, that is whenever the registered
\* volume or the transform is missing or empty.
C16_Stage1RunsWhenIncomplete ==
  (cur.outcome \notin {"none", "skipped"} /\ ~cur.entry1) => cur.n1 >= 1

\* C17: every call of run_hdbet leaves no temporary script behind, on each
\* of its exit paths.
C17_NoScriptLeftBehind ==
  (Final(cur) /\ cur.n2 >= 1) => cur.script = "removed"
\* C17, amended: when run_hdbet has returned, by any exit path, the script
\* is gone unless its removal failed; a failed removal is swallowed: the
\* stage succeeded exactly when the host exited with 0 and both outputs are
\* non-empty files.
C17_ScriptRemovedUnlessUnlinkFails ==
  (Final(cur) /\ cur.n2 >= 1) =>
    /\ cur.unlink \in {"ok", "failed"}
    /\ cur.unlink = "ok" => cur.script = "removed"
    /\ cur.outcome \in {"succeeded", "failed2"}
    /\ cur.outcome = "succeeded"
         <=> (cur.rc2 = 0 /\ \A a \in Stage2Outs : fs[CurName][a] = "data")
C17_Witness ==
  /\ Final(cur) /\ cur.n2 = 1 /\ cur.rc2 = 0
  /\ cur.unlink = "failed" /\ cur.script = "left"
  /\ cur.outcome = "succeeded"

\* C18: the stage-2 wait is abandoned as soon as it exceeds the configured
\* --bet-timeout, the value the timeout message states.
C18_CeilingIsConfiguredTimeout ==
  cur.rc2 = -2 => (cur.waited = bet_timeout /\ cur.logged = cur.waited)

\* C19: whenever process_case returns True, the four outputs of the item
\* are non-empty files at that moment.
C19_TrueMeansAllOutputs ==
  (Final(cur) /\ Counted(cur.outcome)) => \A a \in Arts : fs[CurName][a] = "data"

\* C20: distinct discovered items have distinct stable names, hence
\* disjoint output paths.
C20_DistinctItemsDisjointOutputs ==
  \A i, j \in 1..Len(imgs) :
    i # j => basename_no_nii_gz(imgs[i]) # basename_no_nii_gz(imgs[j])
====
